---------------------------- MODULE Spec2Model ----------------------------
(***************************************************************************)
(* lc96pconvert: the plate pivot of run.py (reshape_result, convert_file), *)
(* the command-line pipeline of run.py and the Streamlit script of app.py  *)
(* with its per-session cache and its temporary file.                      *)
(*                                                                         *)
(* A well id is a sequence of one-character strings, a Cq is the text of   *)
(* the float read from the results CSV ("NaN" for an empty field).         *)
(***************************************************************************)
EXTENDS Integers, Sequences, FiniteSets, TLC

(***************************************************************************)
(* Bounds of the model.                                                    *)
(***************************************************************************)
\* rows of a results table handed to the pivot
MaxRows == 3

(***************************************************************************)
(* The regular expression (?P<letter>[A-Z])(?P<digit>\d+) as str.extract   *)
(* applies it: re.search, the first position where it matches.             *)
(***************************************************************************)
Upper == {"A", "B"}

Digits == {"0", "1", "2"}

DigitVal(c) == CASE c = "0" -> 0 [] c = "1" -> 1 [] c = "2" -> 2

\* [A-Z]\d+ matches at position i of w
MatchAt(w, i) == /\ i + 1 <= Len(w)
                 /\ w[i] \in Upper
                 /\ w[i + 1] \in Digits

\* re.search: the leftmost position where the pattern matches, 0 for none
FirstMatch(w) ==
    IF \E i \in 1..Len(w) : MatchAt(w, i)
    THEN CHOOSE i \in 1..Len(w) :
             MatchAt(w, i) /\ \A j \in 1..(i - 1) : ~MatchAt(w, j)
    ELSE 0

\* \d+ is greedy: the longest run of digits of w from position i
RECURSIVE DigitRun(_, _)
DigitRun(w, i) ==
    IF i <= Len(w) /\ w[i] \in Digits
    THEN <<w[i]>> \o DigitRun(w, i + 1)
    ELSE <<>>

\* Series.str.extract on one well id: the two named groups, or NaN, NaN
extract(w) ==
    LET i == FirstMatch(w) IN
    IF i = 0
    THEN [matched |-> FALSE, letter |-> <<>>, digit |-> <<>>]
    ELSE [matched |-> TRUE, letter |-> <<w[i]>>, digit |-> DigitRun(w, i + 1)]

\* int() of the digit group, decimal
RECURSIVE ToInt(_)
ToInt(d) ==
    IF d = <<>> THEN 0
    ELSE ToInt(SubSeq(d, 1, Len(d) - 1)) * 10 + DigitVal(d[Len(d)])

(***************************************************************************)
(* The pivot.  A call returns a value, raises a (catchable) exception or   *)
(* raises SystemExit (sys.exit, which `except Exception` does not catch).  *)
(***************************************************************************)
NoneV == [type |-> "None"]

Returned(v) == [kind |-> "ok", val |-> v, err |-> "", code |-> 0]

Raised(e) == [kind |-> "raise", val |-> NoneV, err |-> e, code |-> 0]

Exited(c) == [kind |-> "exit", val |-> NoneV, err |-> "SystemExit", code |-> c]

Pending == [kind |-> "none", val |-> NoneV, err |-> "", code |-> 0]

\* the rows of the joined frame: letter, digit (as int) and the Cq
Joined(t) ==
    [i \in 1..Len(t) |->
        LET m == extract(t[i].well) IN
        [letter |-> m.letter, digit |-> ToInt(m.digit), cq |-> t[i].cq]]

\* a pivot that fills the cells without a value with 0 (fill_value=0)
pivot_fill_value(j) ==
    LET index == {j[i].letter : i \in 1..Len(j)}
        columns == {j[i].digit : i \in 1..Len(j)}
    IN [index |-> index,
        columns |-> columns,
        cell |-> [p \in index \X columns |->
                    IF \E i \in 1..Len(j) :
                          <<j[i].letter, j[i].digit>> = p /\ j[i].cq # "NaN"
                    THEN j[CHOOSE i \in 1..Len(j) :
                               <<j[i].letter, j[i].digit>> = p].cq
                    ELSE "0.0"]]

\* DataFrame.pivot(index="letter", columns="digit", values=...): the sorted
\* distinct letters and digits, a cell for every pair, NaN where no row is
pivot(j) ==
    LET index == {j[i].letter : i \in 1..Len(j)}
        columns == {j[i].digit : i \in 1..Len(j)}
    IN [index |-> index,
        columns |-> columns,
        cell |-> [p \in index \X columns |->
                    IF \E i \in 1..Len(j) : <<j[i].letter, j[i].digit>> = p
                    THEN j[CHOOSE i \in 1..Len(j) :
                               <<j[i].letter, j[i].digit>> = p].cq
                    ELSE "NaN"]]

\* a pivot that aggregates duplicate entries (pivot_table) and raises nothing
AggregatesDuplicates(j) == FALSE

\* pivot raises "Index contains duplicate entries, cannot reshape"
HasDuplicateEntries(j) ==
    \E a, b \in 1..Len(j) :
        a # b /\ j[a].letter = j[b].letter /\ j[a].digit = j[b].digit

\* the chain join / assign(astype(int)) / pivot, then the emptiness test
PlateOf(t) ==
    IF \E i \in 1..Len(t) : ~extract(t[i].well).matched
    THEN Raised("ValueError")          \* astype(int) of a NaN digit
    ELSE IF HasDuplicateEntries(Joined(t))
    THEN Raised("ValueError")          \* pivot
    ELSE LET g == pivot(Joined(t)) IN
         IF g.index = {} \/ g.columns = {}
         THEN Exited(1)                \* df_plate.empty: sys.exit(1)
         ELSE Returned(g)

reshape_result(result_table) == PlateOf(result_table)

(***************************************************************************)
(* The run file as the vendored rdmlpython library presents it.            *)
(*   exps, runs  len(experiments()), len(runs()) of the first experiment   *)
(*   amp, melt   whether export_table("amp"/"melt") is a parseable table   *)
(*   noRawData   linRegPCR's result holds the "noRawData" entry            *)
(*   csv         linRegPCR's result holds the "resultsCSV" entry           *)
(*   wells       per well: its id, its Cq with unstable-baseline wells     *)
(*               left out of the mean efficiency (cq) and with them in it  *)
(*               (cqAll); the two differ only when the run has such a well *)
(***************************************************************************)
\* rows of the results CSV of a run file
MaxFileRows == 1

FileWellIds == { <<"A", "1">>, <<"B", "1">>, <<"A", "1", "x">>, <<>> }

CqVals == {"NaN", "19.8", "20.1"}

\* a well without a Cq has none whatever the mean efficiency is
FileRows == {r \in [well : FileWellIds, cq : CqVals, cqAll : CqVals] :
                (r.cq = "NaN") <=> (r.cqAll = "NaN")}

FileTables == UNION {[1..n -> FileRows] : n \in 0..MaxFileRows}

\* the runs are inside the experiments and the data inside the runs; with
\* raw data, saveResultsCSV=True gives the "resultsCSV" entry
Files == {f \in [exps : 0..1, runs : 0..1, amp : BOOLEAN, melt : BOOLEAN,
                 noRawData : BOOLEAN, csv : BOOLEAN, wells : FileTables] :
              /\ f.noRawData \/ f.csv
              /\ f.exps = 0 => f.runs = 0
              /\ f.runs = 0 => /\ ~f.amp /\ ~f.melt
                               /\ f.noRawData /\ ~f.csv
                               /\ f.wells = <<>>}

\* Run.linRegPCR(...): the entries of its result that export_cq and rdml.py read
LinRegPCR(f, cfg) ==
    [noRawData |-> f.noRawData,
     hasCSV |-> f.csv,
     resultsCSV |-> [i \in 1..Len(f.wells) |->
                       [well |-> f.wells[i].well,
                        cq |-> IF cfg.excludeInstableBaseline
                               THEN f.wells[i].cq
                               ELSE f.wells[i].cqAll]]]

(***************************************************************************)
(* run.py                                                                  *)
(***************************************************************************)
extract_run(f) ==
    IF f.exps < 1 THEN Exited(0)             \* "No experiments found!"
    ELSE IF f.runs < 1 THEN Exited(0)        \* "No runs found!"
    ELSE Returned([type |-> "run", of |-> f])

export_amp(f) ==
    IF f.amp THEN Returned([type |-> "amp", of |-> f])
    ELSE Raised("ParserError")

export_melt(f) ==
    IF f.melt THEN Returned([type |-> "melt", of |-> f])
    ELSE Raised("ParserError")

\* the keyword arguments of run.linRegPCR in export_cq
ExportCqConfig == [pcrEfficiencyExl |-> "0.05",
                   excludeNoPlateau |-> TRUE,
                   excludeEfficiency |-> "mean",
                   excludeInstableBaseline |-> TRUE]

\* "noRawData" is logged and the function goes on to read "resultsCSV"
export_cq(f) ==
    LET cli_result == LinRegPCR(f, ExportCqConfig) IN
    IF ~cli_result.hasCSV THEN Raised("KeyError")
    ELSE reshape_result(cli_result.resultsCSV)

\* the flags of the rdml.py command line in convert_file; no
\* --excludeInstableBaseline is passed
ConvertFileConfig == [pcrEfficiencyExl |-> "0.05",
                      excludeNoPlateau |-> TRUE,
                      excludeEfficiency |-> "mean",
                      excludeInstableBaseline |-> FALSE]

\* the subprocess writes the results to the temporary .tsv (left empty when
\* there are none), which is read back and pivoted by the same chain
convert_file(f) ==
    LET cli_result == LinRegPCR(f, ConvertFileConfig) IN
    IF ~cli_result.hasCSV THEN Raised("EmptyDataError")
    ELSE PlateOf(cli_result.resultsCSV)

\* an uncaught exception ends the interpreter with status 1, sys.exit(n) with n
ExitStatus(o) == IF o.kind = "exit" THEN o.code ELSE 1

(***************************************************************************)
(* Inputs of the pivot: well ids and Cq values.                            *)
(***************************************************************************)
WellIds == { <<"A", "1">>, <<"A", "2">>, <<"B", "1">>,
             <<"A", "0", "1">>, <<"A", "A", "1">>, <<"A", "1", "x">>,
             <<"a", "1">>, <<"1", "A">>, <<>> }

Rows == [well : WellIds, cq : CqVals]

Tables == UNION {[1..n -> Rows] : n \in 0..MaxRows}

VARIABLES tbl, out, input_file, cli,
          script, session, tmpFiles, cachedFrom, before

pvars == <<tbl, out>>

cvars == <<input_file, cli>>

avars == <<script, session, tmpFiles, cachedFrom, before>>

vars == <<pvars, cvars, avars>>

CliStart == [pc |-> "extract_run", run |-> NoneV, amp_table |-> NoneV,
             melt_table |-> NoneV, result_table |-> NoneV,
             df_plate |-> NoneV, status |-> -1, failed |-> "none"]

NoFile == [exps |-> 0, runs |-> 0, amp |-> FALSE, melt |-> FALSE,
           noRawData |-> TRUE, csv |-> FALSE, wells |-> <<>>]

\* the module namespace of one script run of app.py, the position in it, and
\* what the run has put on the page
ScriptStart == [pc |-> "idle", uploaded |-> NoFile, file_key |-> NoneV,
                temp_file_path |-> 0, run |-> NoneV, amp_table |-> NoneV,
                melt_table |-> NoneV, result_table |-> NoneV,
                exc |-> "none", failed |-> "none", stages |-> {},
                hit |-> FALSE, error_shown |-> FALSE,
                shown |-> [amp_table |-> NoneV, melt_table |-> NoneV,
                           result_table |-> NoneV]]

\* st.session_state of a new session: no entry is set
SessionStart == [file_key |-> NoneV, amp_table |-> NoneV,
                 melt_table |-> NoneV, result_table |-> NoneV]

PivotIdle == tbl = <<>> /\ out = Pending

CliIdle == input_file = NoFile /\ cli = CliStart

AppIdle == /\ script = ScriptStart
           /\ session = SessionStart
           /\ tmpFiles = {}
           /\ cachedFrom = NoFile
           /\ before = SessionStart

(***************************************************************************)
(* reshape_result applied to a results table.                              *)
(***************************************************************************)
PivotInit == /\ tbl \in Tables
             /\ out = Pending
             /\ CliIdle
             /\ AppIdle

Reshape == /\ out.kind = "none"
           /\ out' = reshape_result(tbl)
           /\ UNCHANGED <<tbl, cvars, avars>>

PivotNext == Reshape

SpecPivot == PivotInit /\ [][PivotNext]_vars

(***************************************************************************)
(* run.py as a script: python run.py input_file.lc96p                      *)
(***************************************************************************)
CliInit == /\ input_file \in Files
           /\ cli = CliStart
           /\ PivotIdle
           /\ AppIdle

\* the statement at `here` gave outcome o: go on at `next` with the value
\* bound to `name`, or end the process
CliStep(here, next, name, o) ==
    /\ cli.pc = here
    /\ cli' = IF o.kind = "ok"
              THEN [cli EXCEPT !.pc = next, ![name] = o.val]
              ELSE [cli EXCEPT !.pc = "ended", !.status = ExitStatus(o),
                               !.failed = here]
    /\ UNCHANGED <<input_file, pvars, avars>>

CliExtract == CliStep("extract_run", "export_amp", "run", extract_run(input_file))

CliAmp == CliStep("export_amp", "export_melt", "amp_table", export_amp(cli.run.of))

CliMelt == CliStep("export_melt", "export_cq", "melt_table", export_melt(cli.run.of))

CliCq == CliStep("export_cq", "convert_file", "result_table", export_cq(cli.run.of))

CliConvert == CliStep("convert_file", "return", "df_plate", convert_file(input_file))

CliReturn == /\ cli.pc = "return"
             /\ cli' = [cli EXCEPT !.pc = "ended", !.status = 0]
             /\ UNCHANGED <<input_file, pvars, avars>>

CliNext == \/ CliExtract
           \/ CliAmp
           \/ CliMelt
           \/ CliCq
           \/ CliConvert
           \/ CliReturn

SpecCli == CliInit /\ [][CliNext]_vars

(***************************************************************************)
(* app.py: one browser session.  Every upload runs the script from the top *)
(* with a new namespace; st.session_state and the temporary directory      *)
(* outlive the run.                                                        *)
(***************************************************************************)
\* names tempfile.NamedTemporaryFile can give out
MaxTmpNames == 2

TmpNames == 1..MaxTmpNames

\* the uploads of the session: run files with no or one well
AppTables == { <<>>,
               <<[well |-> <<"A", "1">>, cq |-> "20.1", cqAll |-> "20.1"]>>,
               <<[well |-> <<"A", "1">>, cq |-> "19.8", cqAll |-> "19.8"]>>,
               <<[well |-> <<>>, cq |-> "20.1", cqAll |-> "20.1"]>> }

AppFiles == {f \in Files : f.wells \in AppTables}

\* hashlib.md5(file_bytes).hexdigest(): a digest of the bytes, not the
\* bytes; here the files that differ only in their Cq values collide
md5(f) == [exps |-> f.exps, runs |-> f.runs, amp |-> f.amp, melt |-> f.melt,
           noRawData |-> f.noRawData, csv |-> f.csv,
           ids |-> [i \in 1..Len(f.wells) |-> f.wells[i].well]]

Stages == {"extract_run", "export_amp", "export_melt", "export_cq"}

AppInit == /\ AppIdle
           /\ PivotIdle
           /\ CliIdle

\* lines 111-127: the bytes are hashed and written to a new temporary file
Upload == /\ script.pc = "idle"
          /\ \E f \in AppFiles, n \in TmpNames \ tmpFiles :
                /\ script' = [ScriptStart EXCEPT !.pc = "try", !.uploaded = f,
                                                 !.file_key = md5(f),
                                                 !.temp_file_path = n]
                /\ tmpFiles' = tmpFiles \cup {n}
          /\ before' = session
          /\ UNCHANGED <<session, cachedFrom, pvars, cvars>>

\* the key stored as soon as the file is seen to be new
CheckCacheStoresKey ==
    /\ script.pc = "try"
    /\ IF session.file_key # script.file_key
       THEN /\ script' = [script EXCEPT !.pc = "extract_run"]
            /\ session' = [session EXCEPT !.file_key = script.file_key]
       ELSE /\ script' = [script EXCEPT !.pc = "cached", !.hit = TRUE]
            /\ UNCHANGED session
    /\ UNCHANGED <<tmpFiles, cachedFrom, before, pvars, cvars>>

\* lines 130-132: session_state.get("file_key") != file_key
CheckCache ==
    /\ script.pc = "try"
    /\ script' = IF session.file_key # script.file_key
                 THEN [script EXCEPT !.pc = "extract_run"]
                 ELSE [script EXCEPT !.pc = "cached", !.hit = TRUE]
    /\ UNCHANGED <<session, tmpFiles, cachedFrom, before, pvars, cvars>>

\* a stage of the pipeline at `here` gave outcome o: its value is bound to
\* `name`; an Exception goes to the except clause, SystemExit past it
Stage(here, next, name, o) ==
    /\ script.pc = here
    /\ script' =
         LET s == [script EXCEPT !.stages = @ \cup {here}] IN
         CASE o.kind = "ok" -> [s EXCEPT !.pc = next, ![name] = o.val]
           [] o.kind = "raise" -> [s EXCEPT !.pc = "except", !.failed = here,
                                            !.exc = "Exception"]
           [] o.kind = "exit" -> [s EXCEPT !.pc = "finally", !.failed = here,
                                           !.exc = "SystemExit"]
    /\ UNCHANGED <<session, tmpFiles, cachedFrom, before, pvars, cvars>>

\* show_amp_table / show_melt_table / show_result_table of a table
Show(s, name, table) == [s EXCEPT !.shown[name] = table]

\* line 136; the temporary file holds the uploaded bytes
AppExtract ==
    Stage("extract_run", "export_amp", "run", extract_run(script.uploaded))

\* lines 140-141
AppAmp ==
    /\ Stage("export_amp", "show_amp", "amp_table", export_amp(script.run.of))

ShowAmp ==
    /\ script.pc = "show_amp"
    /\ script' = [Show(script, "amp_table", script.amp_table)
                    EXCEPT !.pc = "export_melt"]
    /\ UNCHANGED <<session, tmpFiles, cachedFrom, before, pvars, cvars>>

\* lines 145-146
AppMelt ==
    /\ Stage("export_melt", "show_melt", "melt_table", export_melt(script.run.of))

ShowMelt ==
    /\ script.pc = "show_melt"
    /\ script' = [Show(script, "melt_table", script.melt_table)
                    EXCEPT !.pc = "export_cq"]
    /\ UNCHANGED <<session, tmpFiles, cachedFrom, before, pvars, cvars>>

\* lines 150-151
AppCq ==
    /\ Stage("export_cq", "show_cq", "result_table", export_cq(script.run.of))

ShowCq ==
    /\ script.pc = "show_cq"
    /\ script' = [Show(script, "result_table", script.result_table)
                    EXCEPT !.pc = "update"]
    /\ UNCHANGED <<session, tmpFiles, cachedFrom, before, pvars, cvars>>

\* lines 153-155: st.error, then st.stop() raises the script's stop exception
ExceptStop ==
    /\ script.pc = "except"
    /\ script' = [script EXCEPT !.pc = "finally", !.error_shown = TRUE,
                                !.exc = "StopException"]
    /\ UNCHANGED <<session, tmpFiles, cachedFrom, before, pvars, cvars>>

\* line 158
AllProduced(s) == /\ s.amp_table # NoneV
                  /\ s.melt_table # NoneV
                  /\ s.result_table # NoneV

\* the update with the amp_table assignment left out
UpdateCacheKeepsAmp ==
    /\ script.pc = "update"
    /\ IF AllProduced(script)
       THEN /\ session' = [session EXCEPT !.file_key = script.file_key,
                                          !.melt_table = script.melt_table,
                                          !.result_table = script.result_table]
            /\ cachedFrom' = script.uploaded
       ELSE UNCHANGED <<session, cachedFrom>>
    /\ script' = [script EXCEPT !.pc = "finally"]
    /\ UNCHANGED <<tmpFiles, before, pvars, cvars>>

\* lines 158-164
UpdateCache ==
    /\ script.pc = "update"
    /\ IF AllProduced(script)
       THEN /\ session' = [file_key |-> script.file_key,
                           amp_table |-> script.amp_table,
                           melt_table |-> script.melt_table,
                           result_table |-> script.result_table]
            /\ cachedFrom' = script.uploaded
       ELSE UNCHANGED <<session, cachedFrom>>
    /\ script' = [script EXCEPT !.pc = "finally"]
    /\ UNCHANGED <<tmpFiles, before, pvars, cvars>>

\* lines 167-169: the cached tables are shown
ShowCached ==
    /\ script.pc = "cached"
    /\ script' = [script EXCEPT !.pc = "finally",
                                !.shown = [amp_table |-> session.amp_table,
                                           melt_table |-> session.melt_table,
                                           result_table |-> session.result_table]]
    /\ UNCHANGED <<session, tmpFiles, cachedFrom, before, pvars, cvars>>

\* the removal as the last statement of the try block instead: skipped when
\* the block is left by an exception
RemoveUnlessRaised ==
    /\ script.pc = "finally"
    /\ tmpFiles' = IF script.exc = "none"
                   THEN tmpFiles \ {script.temp_file_path}
                   ELSE tmpFiles
    /\ script' = [script EXCEPT !.pc = "idle"]
    /\ UNCHANGED <<session, cachedFrom, before, pvars, cvars>>

\* lines 171-175: the finally clause runs however the try block was left,
\* and the run ends (with the exception still raised, if one is)
Finally ==
    /\ script.pc = "finally"
    /\ tmpFiles' = tmpFiles \ {script.temp_file_path}
    /\ script' = [script EXCEPT !.pc = "idle"]
    /\ UNCHANGED <<session, cachedFrom, before, pvars, cvars>>

\* what the interpreter does once the script has started
ScriptStep == \/ CheckCache
              \/ AppExtract
              \/ AppAmp
              \/ ShowAmp
              \/ AppMelt
              \/ ShowMelt
              \/ AppCq
              \/ ShowCq
              \/ ExceptStop
              \/ UpdateCache
              \/ ShowCached
              \/ Finally

Next == Upload \/ ScriptStep

Spec == AppInit /\ [][Next]_vars

\* a started script runs to its end: the interpreter does not stop midway
FairSpec == Spec /\ WF_vars(ScriptStep)

(***************************************************************************)
(* What the specification says of a well id, read off the id itself:       *)
(* <letters><digits>, the row its whole leading letter sequence, the       *)
(* column the number its trailing digits spell.                            *)
(***************************************************************************)
IsLetters(s) == \A i \in 1..Len(s) : s[i] \in Upper

IsDigits(s) == \A i \in 1..Len(s) : s[i] \in Digits

WellFormedId(w) ==
    \E k \in 1..(Len(w) - 1) :
        IsLetters(SubSeq(w, 1, k)) /\ IsDigits(SubSeq(w, k + 1, Len(w)))

OneLetterId(w) == WellFormedId(w) /\ w[2] \in Digits

LeadingLetters(w) ==
    SubSeq(w, 1, CHOOSE k \in 0..Len(w) :
                     /\ IsLetters(SubSeq(w, 1, k))
                     /\ (k < Len(w) => w[k + 1] \notin Upper))

TrailingDigits(w) == SubSeq(w, Len(LeadingLetters(w)) + 1, Len(w))

RECURSIVE Decimal(_)
Decimal(d) ==
    IF Len(d) = 0 THEN 0
    ELSE 10 * Decimal(SubSeq(d, 1, Len(d) - 1))
         + (CHOOSE v \in 0..9 : <<"0", "1", "2", "3", "4", "5", "6", "7", "8", "9">>[v + 1] = d[Len(d)])

PlatePos(w) == <<LeadingLetters(w), Decimal(TrailingDigits(w))>>

\* the grid holds, at the plate position of every row of the table, that row's Cq
GridHoldsEveryWell ==
    /\ out.kind = "ok"
    /\ \A i \in 1..Len(tbl) :
          LET p == PlatePos(tbl[i].well) IN
          /\ p[1] \in out.val.index
          /\ p[2] \in out.val.columns
          /\ out.val.cell[p] = tbl[i].cq

OneLetterDistinct ==
    /\ \A i \in 1..Len(tbl) : OneLetterId(tbl[i].well)
    /\ \A i, j \in 1..Len(tbl) :
          i # j => PlatePos(tbl[i].well) # PlatePos(tbl[j].well)

(***************************************************************************)
(* C1 as stated: for every results table whose well ids are one letter     *)
(* followed by digits and lie on pairwise distinct plate positions,        *)
(* reshape_result returns a grid whose cell at (row letter, column number) *)
(* is the Cq of that well, an absent Cq giving an absent cell.  The table  *)
(* with no row at all is such a table, and for it no grid is returned.     *)
(***************************************************************************)
C1_EveryTableGivesGrid ==
    (out.kind # "none" /\ OneLetterDistinct) => GridHoldsEveryWell

(***************************************************************************)
(* C1, amended: for every results table with at least one row, whose well  *)
(* ids are one letter followed by digits and lie on pairwise distinct      *)
(* plate positions, reshape_result returns a grid whose cell at (row       *)
(* letter, column number) is the Cq of that well; an absent Cq gives an    *)
(* absent cell, never 0 and never a dropped cell.                          *)
(***************************************************************************)
C1_NonEmptyTableGivesGrid ==
    (out.kind # "none" /\ Len(tbl) > 0 /\ OneLetterDistinct)
        => GridHoldsEveryWell

\* two rows and two columns, one well without a Cq, pivoted into a grid
C1_Witness ==
    /\ out.kind = "ok"
    /\ OneLetterDistinct
    /\ Cardinality(out.val.index) = 2
    /\ Cardinality(out.val.columns) = 2
    /\ \E i, j \in 1..Len(tbl) : tbl[i].cq = "NaN" /\ tbl[j].cq = "20.1"

(***************************************************************************)
(* C3: a results table with a well id that is not wholly letters followed  *)
(* by digits makes reshape_result report a data error and return no grid.  *)
(***************************************************************************)
C3_MalformedIdIsError ==
    (out.kind # "none" /\ \E i \in 1..Len(tbl) : ~WellFormedId(tbl[i].well))
        => out.kind = "raise"

(***************************************************************************)
(* C4: a results table in which two wells map to the same (row, column)    *)
(* pair makes reshape_result report an error; no grid is returned in which *)
(* one of the two Cq values has displaced the other.                       *)
(***************************************************************************)
SamePlace(a, b) ==
    \/ /\ WellFormedId(a) /\ WellFormedId(b)
       /\ PlatePos(a) = PlatePos(b)
    \/ /\ extract(a).matched /\ extract(b).matched
       /\ extract(a).letter = extract(b).letter
       /\ ToInt(extract(a).digit) = ToInt(extract(b).digit)

TwoWellsOnePlace ==
    \E i, j \in 1..Len(tbl) : i # j /\ SamePlace(tbl[i].well, tbl[j].well)

C4_DuplicatePositionIsError ==
    (out.kind # "none" /\ TwoWellsOnePlace) => out.kind = "raise"

\* A1 and A01 with different Cq values, every id matched by the pattern:
\* the error is the pivot's
C4_Witness ==
    /\ out.kind = "raise"
    /\ \A i \in 1..Len(tbl) : extract(tbl[i].well).matched
    /\ \E i, j \in 1..Len(tbl) :
          /\ tbl[i].well = <<"A", "1">>
          /\ tbl[j].well = <<"A", "0", "1">>
          /\ tbl[i].cq # tbl[j].cq

(***************************************************************************)
(* C6: for every well id of one or more leading letters followed by        *)
(* digits, the row key in the grid is the whole leading letter sequence    *)
(* and the column key the integer value of the digits.                     *)
(***************************************************************************)
C6_RowIsLeadingLetters ==
    out.kind = "ok" =>
        \A i \in 1..Len(tbl) :
            WellFormedId(tbl[i].well) =>
                LET p == PlatePos(tbl[i].well) IN
                /\ p[1] \in out.val.index
                /\ p[2] \in out.val.columns
                /\ out.val.cell[p] = tbl[i].cq

(***************************************************************************)
(* C8: for one input file, the table export_cq returns and the grid        *)
(* convert_file writes to the spreadsheet are equal cell by cell.          *)
(***************************************************************************)
C8_SameGridFromBothPaths ==
    cli.df_plate # NoneV => cli.df_plate = cli.result_table

(***************************************************************************)
(* C5: a run whose analysis reports "noRawData" makes export_cq stop with  *)
(* an error, no result grid being built; and a file with no experiments or *)
(* no runs exports no table and ends in a way that differs from success    *)
(* (the script's normal end, exit status 0).                               *)
(***************************************************************************)
C5_RunFailureAborts ==
    /\ input_file.noRawData => cli.result_table = NoneV
    /\ (input_file.noRawData /\ cli.pc = "ended" /\ cli.melt_table # NoneV) =>
          cli.failed = "export_cq"
    /\ (cli.pc = "ended" /\ cli.failed = "extract_run") =>
          /\ cli.amp_table = NoneV
          /\ cli.melt_table = NoneV
          /\ cli.result_table = NoneV
          /\ cli.status # 0

(***************************************************************************)
(* C2: on every failure path of extract_run, export_cq and reshape_result  *)
(* the caller gets a catchable error, the process is not exited, and the   *)
(* script reports the failure of the run.                                  *)
(***************************************************************************)
C2_FailureIsCatchable ==
    /\ script.failed # "none" => script.exc # "SystemExit"
    /\ (script.failed # "none" /\ script.pc = "idle") => script.error_shown

(***************************************************************************)
(* C7: whenever the session holds a file_key, the cached amplification,    *)
(* melt and result tables are all present and are the tables computed from *)
(* the uploaded file that key is the hash of; and an upload of that same   *)
(* file shows the tables a fresh computation gives, with no stage of the   *)
(* pipeline run.                                                           *)
(***************************************************************************)
FreshTables(f) == [amp_table |-> export_amp(f).val,
                   melt_table |-> export_melt(f).val,
                   result_table |-> export_cq(f).val]

C7_CacheIsSound ==
    /\ session.file_key # NoneV =>
          /\ session.file_key = md5(cachedFrom)
          /\ extract_run(cachedFrom).kind = "ok"
          /\ session.amp_table # NoneV
          /\ session.melt_table # NoneV
          /\ session.result_table # NoneV
          /\ session.amp_table = FreshTables(cachedFrom).amp_table
          /\ session.melt_table = FreshTables(cachedFrom).melt_table
          /\ session.result_table = FreshTables(cachedFrom).result_table
    /\ (script.hit /\ script.pc \in {"finally", "idle"}
            /\ script.uploaded = cachedFrom) =>
          /\ script.shown = FreshTables(script.uploaded)
          /\ script.stages = {}

\* the cached file uploaded again, after an upload in between, and shown
\* from the cache
C7_Witness ==
    /\ script.hit
    /\ script.pc = "idle"
    /\ script.uploaded = cachedFrom
    /\ before.file_key # NoneV
    /\ script.shown.result_table # NoneV

(***************************************************************************)
(* C9: if a stage of the pipeline fails for a newly uploaded file, no      *)
(* later stage is run and the four session entries keep the values they    *)
(* had before the upload; the entries change only all four together, to    *)
(* the key and the tables of a run in which every stage succeeded.         *)
(***************************************************************************)
StagesUpTo(s) ==
    CASE s = "extract_run" -> {"extract_run"}
      [] s = "export_amp" -> {"extract_run", "export_amp"}
      [] s = "export_melt" -> {"extract_run", "export_amp", "export_melt"}
      [] s = "export_cq" -> Stages

C9_FailedUploadKeepsCache ==
    /\ script.failed # "none" =>
          /\ session = before
          /\ script.stages = StagesUpTo(script.failed)
    /\ session # before =>
          /\ script.failed = "none"
          /\ script.stages = Stages
          /\ AllProduced(script)
          /\ session = [file_key |-> script.file_key,
                        amp_table |-> script.amp_table,
                        melt_table |-> script.melt_table,
                        result_table |-> script.result_table]

\* an upload that failed in export_cq, after one that filled the cache
C9_Witness ==
    /\ script.pc = "idle"
    /\ script.failed = "export_cq"
    /\ before.file_key # NoneV
    /\ session = before

=============================================================================
